---- MODULE Spec2Model ----
(***************************************************************************)
(* Model of niri-thing-doer (src/src/main.rs): the event loop of main, the *)
(* rule evaluator (rule_applies, window_matches), the per-rule dedup sets  *)
(* (matched_windows) and the action dispatcher (take_windowrule_actions).  *)
(*                                                                         *)
(* Option<T> is modelled as a sequence of length 0 (None) or 1 (Some(x)).  *)
(* Text is a sequence of one-character strings.                            *)
(***************************************************************************)
EXTENDS Integers, Sequences, FiniteSets, TLC

VARIABLES
    pc,               \* position of main: ConnectListening, ConnectSending, Subscribing,
                      \* Streaming, Terminated
    result,           \* "running", or the value main returned: "Ok" / "Err"
    windowrules,      \* the parsed rule set (immutable after startup)
    matched_windows,  \* Vec<HashSet<WindowId>>, one set per rule
    nEvents,          \* number of events read so far
    e2eStep,          \* k: the events read so far are the first k of E2EEvents; -1: they are not
    lastEvent,        \* the event processed last
    preMatched,       \* matched_windows as it was when lastEvent was read
    lastFired,        \* calls of take_windowrule_actions made for lastEvent
    lastOk,           \* FALSE iff handling lastEvent returned Err
    fireCount,        \* [rule][id]: dispatches since the last WindowClosed{id}
    startup,          \* what the startup calls returned, in order
    call,             \* a call of a pure function (arguments)
    ret               \* its return value, <<>> while pending

vars == <<pc, result, windowrules, matched_windows, nEvents, e2eStep, lastEvent,
          preMatched, lastFired, lastOk, fireCount, startup, call, ret>>

loopVars == <<pc, result, windowrules, matched_windows, nEvents, e2eStep, lastEvent,
              preMatched, lastFired, lastOk, fireCount, startup>>

(***************************************************************************)
(* Bounds                                                                  *)
(***************************************************************************)
MaxEvents == 4
MaxMatchers == 2
MaxTemplateParts == 2

(***************************************************************************)
(* Text                                                                    *)
(***************************************************************************)
None == <<>>
Some(x) == <<x>>

S_librewolf == <<"l","i","b","r","e","w","o","l","f">>
S_Bitwarden == <<"B","i","t","w","a","r","d","e","n">>
S_BitwardenTitle == S_Bitwarden \o <<" ","-"," ">> \o S_librewolf
S_kitty == <<"k","i","t","t","y">>
S_id == <<"{","i","d","}">>
S_title == <<"{","t","i","t","l","e","}">>
S_app_id == <<"{","a","p","p","_","i","d","}">>
S_pid == <<"{","p","i","d","}">>

\* Option::unwrap_or_default on Option<&str>
unwrap_or_default(opt) == IF opt = None THEN <<>> ELSE opt[1]

LitAt(lit, text, i) ==
    /\ i + Len(lit) - 1 <= Len(text)
    /\ \A k \in 1..Len(lit) : text[i + k - 1] = lit[k]

\* Regex::is_match for the patterns lit, ^lit, lit$, ^lit$ (.*lit.* is lit):
\* an unanchored search of text.
is_match(re, text) ==
    \E i \in 1..(Len(text) + 1) :
        /\ LitAt(re.lit, text, i)
        /\ re.anchor_start => i = 1
        /\ re.anchor_end => i + Len(re.lit) - 1 = Len(text)

Regex(s, lit, e) == [anchor_start |-> s, lit |-> lit, anchor_end |-> e]

(***************************************************************************)
(* Data model: niri_ipc::Window, window_rule::Match, window_rule::WindowRule*)
(***************************************************************************)
Window(id, title, app_id, pid, foc, flo, urg) ==
    [id |-> id, title |-> title, app_id |-> app_id, pid |-> pid,
     is_focused |-> foc, is_floating |-> flo, is_urgent |-> urg]

Match(app_id, title, foc, flo, urg) ==
    [app_id |-> app_id, title |-> title,
     is_focused |-> foc, is_floating |-> flo, is_urgent |-> urg]

WindowRule(excludes, matches, open_floating, height, width, spawn_sh) ==
    [excludes |-> excludes, matches |-> matches, open_floating |-> open_floating,
     default_window_height |-> height, default_column_width |-> width,
     spawn_sh |-> spawn_sh]

EmptyMatch == Match(None, None, None, None, None)

(***************************************************************************)
(* Rule evaluator                                                          *)
(***************************************************************************)
window_matches_any_state(window, m) ==
    LET pairs == << <<m.app_id, window.app_id>>, <<m.title, window.title>> >>
        regex_rules == \A i \in 1..2 :
            pairs[i][1] # None =>
                is_match(pairs[i][1][1], unwrap_or_default(pairs[i][2]))
        flags == <<m.is_urgent, m.is_floating, m.is_focused>>
        state_rules == \E i \in 1..3 : flags[i] # None /\ flags[i][1]
    IN  regex_rules /\ state_rules

window_matches(window, m) ==
    LET pairs == << <<m.app_id, window.app_id>>, <<m.title, window.title>> >>
        \* filter_map: an unset pattern is skipped; all(identity)
        regex_rules == \A i \in 1..2 :
            pairs[i][1] # None =>
                is_match(pairs[i][1][1], unwrap_or_default(pairs[i][2]))
        \* flatten() keeps the matcher's own Some(b) values; all(identity)
        \* tests those values, the window's flags are never read
        flags == <<m.is_urgent, m.is_floating, m.is_focused>>
        state_rules == \A i \in 1..3 : flags[i] # None => flags[i][1]
    IN  regex_rules /\ state_rules

rule_applies_all_includes(window, wr) ==
    LET excluded == \E i \in 1..Len(wr.excludes) : window_matches(window, wr.excludes[i])
    IN  IF excluded THEN FALSE
        ELSE \A i \in 1..Len(wr.matches) : window_matches(window, wr.matches[i])

rule_applies_includes_first(window, wr) ==
    \E i \in 1..Len(wr.matches) : window_matches(window, wr.matches[i])

rule_applies(window, wr) ==
    LET excluded == \E i \in 1..Len(wr.excludes) : window_matches(window, wr.excludes[i])
    IN  IF excluded THEN FALSE
        ELSE \E i \in 1..Len(wr.matches) : window_matches(window, wr.matches[i])

(***************************************************************************)
(* Action dispatcher                                                       *)
(***************************************************************************)
Digits == <<"0","1","2","3","4","5","6","7","8","9">>

\* u64::to_string / i32::to_string of a non-negative number: decimal digits
RECURSIVE to_string(_)
to_string(n) ==
    IF n < 10 THEN <<Digits[n + 1]>>
    ELSE to_string(n \div 10) \o <<Digits[(n % 10) + 1]>>

\* str::replace: every non-overlapping occurrence of from, left to right
RECURSIVE ReplaceFrom(_, _, _, _)
ReplaceFrom(s, from, to, i) ==
    IF i > Len(s) THEN <<>>
    ELSE IF LitAt(from, s, i) THEN to \o ReplaceFrom(s, from, to, i + Len(from))
    ELSE <<s[i]>> \o ReplaceFrom(s, from, to, i + 1)

replace(s, from, to) == ReplaceFrom(s, from, to, 1)

spawn_command(window, template) ==
    LET id == to_string(window.id)
        title == unwrap_or_default(window.title)
        app_id == unwrap_or_default(window.app_id)
        pid == IF window.pid = None THEN <<>> ELSE to_string(window.pid[1])
    IN  replace(replace(replace(replace(template, S_id, id), S_title, title),
                        S_app_id, app_id), S_pid, pid)

Cmd(kind, id, change, command) ==
    [kind |-> kind, id |-> id, change |-> change, command |-> command]

PlacementCmds_default_tiling(window, wr) ==
    <<Cmd(IF wr.open_floating = Some(TRUE) THEN "MoveWindowToFloating" ELSE "MoveWindowToTiling",
          Some(window.id), None, None)>>

PlacementCmds(window, wr) ==
    IF wr.open_floating = None THEN <<>>
    ELSE <<Cmd(IF wr.open_floating[1] THEN "MoveWindowToFloating" ELSE "MoveWindowToTiling",
               Some(window.id), None, None)>>

\* Some(DefaultPresetSize(Some(change))) is <<<<change>>>>
HeightCmds(window, wr) ==
    IF wr.default_window_height # None /\ wr.default_window_height[1] # None
    THEN <<Cmd("SetWindowHeight", Some(window.id), wr.default_window_height[1], None)>>
    ELSE <<>>

WidthCmds(window, wr) ==
    IF wr.default_column_width # None /\ wr.default_column_width[1] # None
    THEN <<Cmd("SetWindowWidth", Some(window.id), wr.default_column_width[1], None)>>
    ELSE <<>>

SpawnCmds(window, wr) ==
    IF wr.spawn_sh = None THEN <<>>
    ELSE <<Cmd("SpawnSh", None, None, Some(spawn_command(window, wr.spawn_sh[1])))>>

ActionCommands_spawn_first(window, wr) ==
    SpawnCmds(window, wr) \o PlacementCmds(window, wr)
        \o HeightCmds(window, wr) \o WidthCmds(window, wr)

\* the requests take_windowrule_actions makes, in the order of its if-blocks
ActionCommands(window, wr) ==
    PlacementCmds(window, wr) \o HeightCmds(window, wr)
        \o WidthCmds(window, wr) \o SpawnCmds(window, wr)

\* What Socket::send gives back: "Handled" is Ok(Ok(Response::Handled)),
\* "Error" is Ok(Err(message)), "Other" is Ok(Ok(another response)),
\* "IoError" is Err(io error).
Replies == {"Handled", "Error", "Other", "IoError"}
BadReplies == Replies \ {"Handled"}

handle_send_unchecked(reply) == TRUE

\* handle_send: Ok(()) iff the reply is Ok(Ok(Response::Handled))
handle_send(reply) == reply = "Handled"

\* the spawn request: `let _ = socket.send(..).into_diagnostic()?` drops the reply
spawn_send(reply) == reply # "IoError"

SendOk(cmd, reply) ==
    IF cmd.kind = "SpawnSh" THEN spawn_send(reply) ELSE handle_send(reply)

\* The compositor's replies while one event is handled: the fail-th request
\* made gets the reply kind, every other one "Handled" (fail = 0: all handled).
ReplyAt(replies, k) == IF k = replies.fail THEN replies.kind ELSE "Handled"

AllHandled == [fail |-> 0, kind |-> "Handled"]

\* sends cmds one at a time; base is the number of requests already made while
\* handling this event; `?` returns at the first failure
RECURSIVE SendAll(_, _, _, _)
SendAll(cmds, sent, replies, base) ==
    IF cmds = <<>> THEN [sent |-> sent, ok |-> TRUE]
    ELSE LET reply == ReplyAt(replies, base + Len(sent) + 1)
             s2 == Append(sent, [cmd |-> Head(cmds), reply |-> reply])
         IN  IF SendOk(Head(cmds), reply)
             THEN SendAll(Tail(cmds), s2, replies, base)
             ELSE [sent |-> s2, ok |-> FALSE]

take_windowrule_actions(window, wr, replies, base) ==
    SendAll(ActionCommands(window, wr), <<>>, replies, base)

(***************************************************************************)
(* handle_window                                                           *)
(***************************************************************************)
Indices(rules) == [i \in 1..Len(rules) |-> i]

rules_that_apply_first_only(window, rules) ==
    LET all == SelectSeq(Indices(rules), LAMBDA i : rule_applies(window, rules[i]))
    IN  IF all = <<>> THEN <<>> ELSE <<all[1]>>

rules_that_apply_unfiltered(window, rules) == Indices(rules)

\* enumerate().filter(rule_applies).collect(): the indices, ascending
rules_that_apply(window, rules) ==
    SelectSeq(Indices(rules), LAMBDA i : rule_applies(window, rules[i]))

insert_always_new(set, id) == TRUE

insert_into_every_set(matched, r, id) == [i \in DOMAIN matched |-> matched[i] \cup {id}]

\* matched_windows[rule_idx].insert(window.id): the set after the call
insert(matched, r, id) == [matched EXCEPT ![r] = @ \cup {id}]

\* the value HashSet::insert returns: true iff id was not in the set
insert_is_new(set, id) == id \notin set

\* acc: [matched, fired, ok, n]; n counts the requests made for this event
RECURSIVE HandleRules(_, _, _, _, _)
HandleRules(idxs, window, rules, acc, replies) ==
    IF idxs = <<>> THEN acc
    ELSE LET r == Head(idxs)
             isNew == insert_is_new(acc.matched[r], window.id)
             m2 == insert(acc.matched, r, window.id)
             t == take_windowrule_actions(window, rules[r], replies, acc.n)
             acc2 == [matched |-> m2,
                      fired |-> Append(acc.fired,
                          [rule |-> r, window |-> window, sent |-> t.sent, ok |-> t.ok]),
                      ok |-> t.ok,
                      n |-> acc.n + Len(t.sent)]
         IN  IF ~isNew THEN HandleRules(Tail(idxs), window, rules, acc, replies)
             ELSE IF t.ok THEN HandleRules(Tail(idxs), window, rules, acc2, replies)
             ELSE acc2

handle_window(window, rules, acc, replies) ==
    HandleRules(rules_that_apply(window, rules), window, rules, acc, replies)

\* Event::WindowsChanged: `for window in windows { handle_window(..)?; }`
RECURSIVE HandleWindows(_, _, _, _)
HandleWindows(windows, rules, acc, replies) ==
    IF windows = <<>> THEN acc
    ELSE LET a2 == handle_window(Head(windows), rules, acc, replies)
         IN  IF a2.ok THEN HandleWindows(Tail(windows), rules, a2, replies) ELSE a2

\* Event::WindowClosed: drop(matched_windows.iter_mut().map(|x| x.remove(&id)))
\* builds a lazy Map adaptor and drops it unconsumed: the closure never runs
window_closed(matched, id) == matched

(***************************************************************************)
(* Inputs: rule sets, window snapshots, events                             *)
(***************************************************************************)
Re_librewolf == Regex(TRUE, S_librewolf, TRUE)    \* ^librewolf$
Re_Bitwarden == Regex(FALSE, S_Bitwarden, FALSE)  \* .*Bitwarden.*

M_e2e == Match(Some(Re_librewolf), Some(Re_Bitwarden), None, None, None)
M_librewolf == Match(Some(Re_librewolf), None, None, None, None)
M_Bitwarden == Match(None, Some(Re_Bitwarden), None, None, None)
M_focused == Match(None, None, Some(TRUE), None, None)
M_not_floating == Match(None, None, None, Some(FALSE), None)

SpawnTemplate == S_id \o <<":">> \o S_pid \o <<":">> \o S_id

E2ERules ==
    << WindowRule(<<>>, <<M_e2e>>, Some(TRUE), None, None, None) >>

RulesAllActions ==
    << WindowRule(<<>>, <<M_librewolf>>, Some(FALSE), Some(Some(10)), Some(Some(-5)),
                  Some(SpawnTemplate)),
       WindowRule(<<M_not_floating>>, <<EmptyMatch>>, None, Some(None), Some(Some(3)), None) >>

RulesEmptyInclude ==
    << WindowRule(<<M_Bitwarden>>, <<>>, Some(TRUE), None, None, None),
       WindowRule(<<>>, <<M_focused, M_librewolf>>, None, None, None, None) >>

RulesExclude ==
    << WindowRule(<<M_librewolf>>, <<M_librewolf, EmptyMatch>>, Some(TRUE), None,
                  Some(Some(2)), None),
       WindowRule(<<>>, <<M_not_floating, M_e2e>>, None, Some(Some(4)), None,
                  Some(S_title)) >>

RuleSets == {E2ERules, RulesAllActions, RulesEmptyInclude, RulesExclude}

WindowIds == {42, 43}

WinA(id) == Window(id, Some(S_BitwardenTitle), Some(S_librewolf), Some(7), TRUE, FALSE, FALSE)
WinB(id) == Window(id, None, Some(S_kitty), None, FALSE, FALSE, FALSE)

LoopWindows == {WinA(id) : id \in WindowIds} \cup {WinB(id) : id \in WindowIds}

SeqsUpTo(S, n) == UNION {[1..k -> S] : k \in 0..n}

\* the lists Event::WindowsChanged carries: the compositor's window list, one
\* snapshot per open window id
WindowLists ==
    {ws \in SeqsUpTo(LoopWindows, Cardinality(WindowIds)) :
        \A i, j \in 1..Len(ws) : i # j => ws[i].id # ws[j].id}

Event(kind, windows, id) == [kind |-> kind, windows |-> windows, id |-> id]

NoEvent == Event("None", <<>>, None)
Opened(w) == Event("WindowOpenedOrChanged", <<w>>, None)
Closed(id) == Event("WindowClosed", <<>>, Some(id))

E2EEvents == <<Opened(WinA(42)), Opened(WinA(42)), Closed(42), Opened(WinA(42))>>

(***************************************************************************)
(* Inputs of the pure functions                                            *)
(***************************************************************************)
Call(fn, window, m, wr) == [fn |-> fn, window |-> window, m |-> m, wr |-> wr]

NoCall == Call("none", WinA(42), EmptyMatch, E2ERules[1])

OptBool == {None, Some(TRUE), Some(FALSE)}

PureWindows ==
    {Window(42, t, a, None, foc, flo, urg) :
        t \in {None, Some(S_BitwardenTitle)},
        a \in {None, Some(S_librewolf), Some(S_kitty)},
        foc \in BOOLEAN, flo \in BOOLEAN, urg \in BOOLEAN}

PureMatches ==
    {Match(a, t, foc, flo, urg) :
        a \in {None, Some(Re_librewolf)}, t \in {None, Some(Re_Bitwarden)},
        foc \in OptBool, flo \in OptBool, urg \in OptBool}

RuleMatches == {EmptyMatch, M_librewolf, M_Bitwarden, M_not_floating}

RuleWindows == {WinA(42), WinB(42), Window(42, None, Some(S_librewolf), None, FALSE, TRUE, FALSE)}

PureRules ==
    {WindowRule(ex, inc, None, None, None, None) :
        ex \in SeqsUpTo(RuleMatches, MaxMatchers), inc \in SeqsUpTo(RuleMatches, MaxMatchers)}

RECURSIVE Join(_)
Join(parts) == IF parts = <<>> THEN <<>> ELSE Head(parts) \o Join(Tail(parts))

\* spawn templates: up to MaxTemplateParts placeholders or literal characters
Templates ==
    {Join(parts) : parts \in SeqsUpTo({S_id, S_title, S_app_id, S_pid, <<"x">>},
                                       MaxTemplateParts)}

\* windows whose texts are absent, plain, or hold the text of a placeholder
SpawnWindows ==
    {Window(id, t, a, p, FALSE, FALSE, FALSE) :
        id \in {7, 42},
        t \in {None, Some(<<"t">>), Some(S_pid), Some(S_app_id)},
        a \in {None, Some(<<"a">>), Some(S_pid)},
        p \in {None, Some(105)}}

SpawnRules == {WindowRule(<<>>, <<>>, None, None, None, Some(t)) : t \in Templates}

PureCalls ==
    {Call("window_matches", w, m, E2ERules[1]) : w \in PureWindows, m \in PureMatches}
        \cup {Call("rule_applies", w, EmptyMatch, wr) : w \in RuleWindows, wr \in PureRules}
        \cup {Call("spawn_command", w, EmptyMatch, wr) : w \in SpawnWindows, wr \in SpawnRules}

(***************************************************************************)
(* main                                                                    *)
(***************************************************************************)
Init ==
    /\ pc = "ConnectListening"
    /\ result = "running"
    /\ windowrules \in RuleSets
    /\ matched_windows = <<>>
    /\ nEvents = 0
    /\ e2eStep = 0
    /\ lastEvent = NoEvent
    /\ preMatched = <<>>
    /\ lastFired = <<>>
    /\ lastOk = TRUE
    /\ fireCount = [p \in (1..Len(windowrules)) \X WindowIds |-> 0]
    /\ startup = <<>>
    /\ call = NoCall
    /\ ret = None

Exit(res) ==
    /\ pc' = "Terminated"
    /\ result' = res

\* line 41: Socket::connect().into_diagnostic()?
ConnectListening ==
    /\ pc = "ConnectListening"
    /\ \E ok \in BOOLEAN :
        /\ startup' = Append(startup, IF ok THEN "Connected" ELSE "IoError")
        /\ IF ok THEN pc' = "ConnectSending" /\ result' = result
           ELSE Exit("Err")
    /\ UNCHANGED <<windowrules, matched_windows, nEvents, e2eStep, lastEvent, preMatched,
                   lastFired, lastOk, fireCount, call, ret>>

\* lines 42-46: the second connection, then one empty set per rule
ConnectSending ==
    /\ pc = "ConnectSending"
    /\ \E ok \in BOOLEAN :
        /\ startup' = Append(startup, IF ok THEN "Connected" ELSE "IoError")
        /\ IF ok
           THEN /\ pc' = "Subscribing"
                /\ result' = result
                /\ matched_windows' = [r \in 1..Len(windowrules) |-> {}]
           ELSE Exit("Err") /\ UNCHANGED matched_windows
    /\ UNCHANGED <<windowrules, nEvents, e2eStep, lastEvent, preMatched,
                   lastFired, lastOk, fireCount, call, ret>>

\* line 48: handle_send(Request::EventStream, &mut listening_socket)?
Subscribe ==
    /\ pc = "Subscribing"
    /\ \E reply \in Replies :
        /\ startup' = Append(startup, reply)
        /\ IF handle_send(reply) THEN pc' = "Streaming" /\ result' = result
           ELSE Exit("Err")
    /\ UNCHANGED <<windowrules, matched_windows, nEvents, e2eStep, lastEvent, preMatched,
                   lastFired, lastOk, fireCount, call, ret>>

after_event_keep_streaming(ok) == [pc |-> "Streaming", result |-> "running"]

\* the `?` on handle_window(..) in main: an Err leaves the loop and main
after_event(ok) ==
    IF ok THEN [pc |-> "Streaming", result |-> "running"]
    ELSE [pc |-> "Terminated", result |-> "Err"]

Acc0 == [matched |-> matched_windows, fired |-> <<>>, ok |-> TRUE, n |-> 0]

NextStep(ev) ==
    IF e2eStep = nEvents /\ nEvents < Len(E2EEvents) /\ ev = E2EEvents[nEvents + 1]
    THEN e2eStep + 1 ELSE -1

Fires(fired, r, id) ==
    Cardinality({k \in 1..Len(fired) : fired[k].rule = r /\ fired[k].window.id = id})

\* bookkeeping shared by the handlers of the two snapshot events
Handled(ev, res) ==
    /\ matched_windows' = res.matched
    /\ pc' = after_event(res.ok).pc
    /\ result' = after_event(res.ok).result
    /\ nEvents' = nEvents + 1
    /\ e2eStep' = NextStep(ev)
    /\ lastEvent' = ev
    /\ preMatched' = matched_windows
    /\ lastFired' = res.fired
    /\ lastOk' = res.ok
    /\ fireCount' = [p \in DOMAIN fireCount |-> fireCount[p] + Fires(res.fired, p[1], p[2])]
    /\ UNCHANGED <<windowrules, startup, call, ret>>

CanRead == pc = "Streaming" /\ nEvents < MaxEvents

\* lines 53-62
OnWindowsChanged ==
    /\ CanRead
    /\ \E windows \in WindowLists :
        \E fail \in 0..HandleWindows(windows, windowrules, Acc0, AllHandled).n :
            \E kind \in (IF fail = 0 THEN {"Handled"} ELSE BadReplies) :
                Handled(Event("WindowsChanged", windows, None),
                        HandleWindows(windows, windowrules, Acc0,
                                      [fail |-> fail, kind |-> kind]))

\* lines 63-70
OnWindowOpenedOrChanged ==
    /\ CanRead
    /\ \E window \in LoopWindows :
        \E fail \in 0..handle_window(window, windowrules, Acc0, AllHandled).n :
            \E kind \in (IF fail = 0 THEN {"Handled"} ELSE BadReplies) :
                Handled(Opened(window),
                        handle_window(window, windowrules, Acc0,
                                      [fail |-> fail, kind |-> kind]))

\* line 71
OnWindowClosed ==
    /\ CanRead
    /\ \E id \in WindowIds :
        /\ matched_windows' = window_closed(matched_windows, id)
        /\ nEvents' = nEvents + 1
        /\ e2eStep' = NextStep(Closed(id))
        /\ lastEvent' = Closed(id)
        /\ preMatched' = matched_windows
        /\ lastFired' = <<>>
        /\ lastOk' = TRUE
        /\ fireCount' = [p \in DOMAIN fireCount |-> IF p[2] = id THEN 0 ELSE fireCount[p]]
    /\ UNCHANGED <<pc, result, windowrules, startup, call, ret>>

OnOtherEvent_ends_loop ==
    /\ pc = "Streaming" /\ nEvents < MaxEvents
    /\ pc' = "Terminated"
    /\ result' = "Ok"
    /\ nEvents' = nEvents + 1
    /\ lastEvent' = Event("Other", <<>>, None)
    /\ UNCHANGED <<windowrules, matched_windows, e2eStep, preMatched, lastFired, lastOk,
                   fireCount, startup, call, ret>>

\* line 72: `_ => ()`
OnOtherEvent ==
    /\ CanRead
    /\ nEvents' = nEvents + 1
    /\ e2eStep' = NextStep(Event("Other", <<>>, None))
    /\ lastEvent' = Event("Other", <<>>, None)
    /\ preMatched' = matched_windows
    /\ lastFired' = <<>>
    /\ lastOk' = TRUE
    /\ UNCHANGED <<pc, result, windowrules, matched_windows, fireCount, startup, call, ret>>

after_read_error_as_failure == "Err"

\* lines 51, 76: `while let Ok(event) = read_event()` ends on Err, then Ok(())
after_read_error == "Ok"

\* read_event() returned Err: the transport was closed or the read failed
ReadError == Event("ReadError", <<>>, None)

OnReadError ==
    /\ pc = "Streaming"
    /\ Exit(after_read_error)
    /\ lastEvent' = ReadError
    /\ preMatched' = matched_windows
    /\ lastFired' = <<>>
    /\ lastOk' = TRUE
    /\ UNCHANGED <<windowrules, matched_windows, nEvents, e2eStep, fireCount, startup,
                   call, ret>>

Next ==
    \/ ConnectListening
    \/ ConnectSending
    \/ Subscribe
    \/ OnWindowsChanged
    \/ OnWindowOpenedOrChanged
    \/ OnWindowClosed
    \/ OnOtherEvent
    \/ OnReadError

Spec == Init /\ [][Next]_vars

(***************************************************************************)
(* The pure functions, called on their own                                 *)
(***************************************************************************)
InitPure ==
    /\ pc = "ConnectListening"
    /\ result = "running"
    /\ windowrules = E2ERules
    /\ matched_windows = <<>>
    /\ nEvents = 0
    /\ e2eStep = 0
    /\ lastEvent = NoEvent
    /\ preMatched = <<>>
    /\ lastFired = <<>>
    /\ lastOk = TRUE
    /\ fireCount = [p \in (1..Len(windowrules)) \X WindowIds |-> 0]
    /\ startup = <<>>
    /\ call \in PureCalls
    /\ ret = None

CallWindowMatches ==
    /\ call.fn = "window_matches"
    /\ ret = None
    /\ ret' = Some(window_matches(call.window, call.m))
    /\ UNCHANGED <<loopVars, call>>

CallRuleApplies ==
    /\ call.fn = "rule_applies"
    /\ ret = None
    /\ ret' = Some(rule_applies(call.window, call.wr))
    /\ UNCHANGED <<loopVars, call>>

\* lines 205-218: the command built from the rule's spawn template
CallSpawnCommand ==
    /\ call.fn = "spawn_command"
    /\ ret = None
    /\ ret' = Some(spawn_command(call.window, call.wr.spawn_sh[1]))
    /\ UNCHANGED <<loopVars, call>>

NextPure ==
    \/ CallWindowMatches
    \/ CallRuleApplies
    \/ CallSpawnCommand

SpecPure == InitPure /\ [][NextPure]_vars

(***************************************************************************)
(* Properties                                                              *)
(***************************************************************************)
IsSnapshot(ev) == ev.kind \in {"WindowsChanged", "WindowOpenedOrChanged"}

Rules == 1..Len(windowrules)

\* the commands sent while lastEvent was handled, in order
RECURSIVE Flatten(_)
Flatten(fired) ==
    IF fired = <<>> THEN <<>>
    ELSE [k \in 1..Len(Head(fired).sent) |-> Head(fired).sent[k].cmd] \o Flatten(Tail(fired))

LastCmds == Flatten(lastFired)

\* C1: the actions of rule r are dispatched for window id w at most once
\* between two consecutive WindowClosed{w} events (and at most once before the
\* first), however many matching snapshots of w are received.
C1_AtMostOncePerOpen ==
    \A p \in DOMAIN fireCount : fireCount[p] <= 1

\* a matching snapshot of an id that rule r already fired for has just been handled
C1_Witness ==
    /\ IsSnapshot(lastEvent)
    /\ \E r \in Rules : \E k \in 1..Len(lastEvent.windows) :
        /\ rule_applies(lastEvent.windows[k], windowrules[r])
        /\ lastEvent.windows[k].id \in preMatched[r]
        /\ fireCount[<<r, lastEvent.windows[k].id>>] = 1

\* C2: after WindowClosed{id} was processed, id is in no rule's dedup set, and
\* so a matching snapshot handled without error leaves its rule fired since
\* the last close of its id.
C2_ClosedIdForgotten ==
    /\ lastEvent.kind = "WindowClosed" =>
        \A r \in Rules : lastEvent.id[1] \notin matched_windows[r]
    /\ (IsSnapshot(lastEvent) /\ lastOk) =>
        \A r \in Rules : \A k \in 1..Len(lastEvent.windows) :
            rule_applies(lastEvent.windows[k], windowrules[r])
                => fireCount[<<r, lastEvent.windows[k].id>>] >= 1

MoveToFloating42 == Cmd("MoveWindowToFloating", Some(42), None, None)

\* C3: end to end, with the one-rule set {include app-id ^librewolf$ and title
\* .*Bitwarden.*, open-floating true}: the first WindowOpenedOrChanged(42)
\* emits exactly one move-to-floating(42), the second identical event emits
\* nothing, and WindowClosed(42) followed by the same WindowOpenedOrChanged(42)
\* emits move-to-floating(42) again.
C3_EndToEnd ==
    windowrules = E2ERules =>
        /\ e2eStep = 1 => LastCmds = <<MoveToFloating42>>
        /\ e2eStep = 2 => LastCmds = <<>>
        /\ e2eStep = 4 => LastCmds = <<MoveToFloating42>>

Excluded(window, wr) ==
    \E i \in 1..Len(wr.excludes) : window_matches(window, wr.excludes[i])

Included(window, wr) ==
    \E i \in 1..Len(wr.matches) : window_matches(window, wr.matches[i])

\* C4: if an exclude matcher of rule R matches window W then rule_applies(W, R)
\* is false, whatever the include matchers are.
C4_ExcludeWins ==
    (call.fn = "rule_applies" /\ ret # None /\ Excluded(call.window, call.wr))
        => ret = Some(FALSE)

\* rule_applies has returned for a window that an exclude and an include match
C4_Witness ==
    /\ call.fn = "rule_applies"
    /\ ret # None
    /\ Excluded(call.window, call.wr)
    /\ Included(call.window, call.wr)

\* C5: a rule with an empty include list applies to no window, never
\* dispatches an action and never records a window id.
C5_EmptyIncludeNeverApplies ==
    \A r \in Rules : windowrules[r].matches = <<>> =>
        /\ \A k \in 1..Len(lastEvent.windows) :
            ~rule_applies(lastEvent.windows[k], windowrules[r])
        /\ \A k \in 1..Len(lastFired) : lastFired[k].rule # r
        /\ r \in DOMAIN matched_windows => matched_windows[r] = {}

\* a snapshot that no exclude of an empty-include rule matches was handled,
\* and another rule fired for it
C5_Witness ==
    /\ IsSnapshot(lastEvent)
    /\ lastFired # <<>>
    /\ \E r \in Rules : \E k \in 1..Len(lastEvent.windows) :
        /\ windowrules[r].matches = <<>>
        /\ ~Excluded(lastEvent.windows[k], windowrules[r])

\* C6: a matcher with no field set matches every window, also one whose title
\* and application id are absent.
C6_EmptyMatcherMatchesAll ==
    (call.fn = "window_matches" /\ ret # None /\ call.m = EmptyMatch)
        => ret = Some(TRUE)

\* window_matches has returned for the empty matcher and a window without
\* title and application id
C6_Witness ==
    /\ call.fn = "window_matches"
    /\ ret = Some(TRUE)
    /\ call.m = EmptyMatch
    /\ call.window.title = None
    /\ call.window.app_id = None

FlagsAgree(window, m) ==
    /\ m.is_focused # None => window.is_focused = m.is_focused[1]
    /\ m.is_floating # None => window.is_floating = m.is_floating[1]
    /\ m.is_urgent # None => window.is_urgent = m.is_urgent[1]

\* C7: a matcher matches a window only if every boolean field it sets equals
\* the window's flag; a matcher that sets only boolean fields matches exactly
\* the windows whose flags equal them.
C7_FlagsCompared ==
    (call.fn = "window_matches" /\ ret # None) =>
        /\ ret = Some(TRUE) => FlagsAgree(call.window, call.m)
        /\ (call.m.app_id = None /\ call.m.title = None)
            => (ret = Some(TRUE) <=> FlagsAgree(call.window, call.m))

KindsSent(entry) == [k \in 1..Len(entry.sent) |-> entry.sent[k].cmd.kind]

Present(wr) ==
    {"MoveWindowToFloating" : x \in {1} \cap {IF wr.open_floating = Some(TRUE) THEN 1 ELSE 0}}
    \cup {"MoveWindowToTiling" : x \in {1} \cap {IF wr.open_floating = Some(FALSE) THEN 1 ELSE 0}}
    \cup {"SetWindowHeight" : x \in {1} \cap
            {IF wr.default_window_height # None /\ wr.default_window_height[1] # None
             THEN 1 ELSE 0}}
    \cup {"SetWindowWidth" : x \in {1} \cap
            {IF wr.default_column_width # None /\ wr.default_column_width[1] # None
             THEN 1 ELSE 0}}
    \cup {"SpawnSh" : x \in {1} \cap {IF wr.spawn_sh # None THEN 1 ELSE 0}}

InOrder(order, entry) ==
    LET kinds == KindsSent(entry)
        Pos(kind) == CHOOSE i \in 1..Len(order) : kind \in order[i]
    IN  /\ \A i, j \in 1..Len(kinds) : i < j => Pos(kinds[i]) < Pos(kinds[j])
        /\ entry.ok => {kinds[i] : i \in 1..Len(kinds)} = Present(windowrules[entry.rule])

\* C8 as stated: for one rule match the commands are emitted in the order
\* placement, column width, row height, spawn, and the emitted sequence is
\* the subsequence of that order of the fields present.
C8_OrderWidthBeforeHeight ==
    \A k \in 1..Len(lastFired) :
        InOrder(<<{"MoveWindowToFloating", "MoveWindowToTiling"}, {"SetWindowWidth"},
                  {"SetWindowHeight"}, {"SpawnSh"}>>, lastFired[k])

\* C8 amended: for one rule match the commands are emitted in the order
\* placement, row height, column width, spawn, and the emitted sequence is
\* the subsequence of that order of the fields present.
C8_OrderHeightBeforeWidth ==
    \A k \in 1..Len(lastFired) :
        InOrder(<<{"MoveWindowToFloating", "MoveWindowToTiling"}, {"SetWindowHeight"},
                  {"SetWindowWidth"}, {"SpawnSh"}>>, lastFired[k])

\* a rule match for which all four commands were sent
C8_Witness ==
    \E k \in 1..Len(lastFired) :
        /\ lastFired[k].ok
        /\ Len(lastFired[k].sent) = 4

\* the rules due for the k-th window of lastEvent: they apply to it and have
\* not fired for its id
Due(k) ==
    {r \in Rules : /\ rule_applies(lastEvent.windows[k], windowrules[r])
                   /\ lastEvent.windows[k].id \notin preMatched[r]}

WinPos(window) == CHOOSE k \in 1..Len(lastEvent.windows) : lastEvent.windows[k] = window

\* C9: rules are not first-match-wins: when every acknowledgment succeeds, for
\* each window snapshot of the event every rule that applies to it and has not
\* fired for its id is dispatched, once, in increasing rule index order.
C9_AllDueRulesFire ==
    (IsSnapshot(lastEvent) /\ lastOk) =>
        /\ {<<lastFired[k].window, lastFired[k].rule>> : k \in 1..Len(lastFired)}
            = UNION {{<<lastEvent.windows[k], r>> : r \in Due(k)} :
                        k \in 1..Len(lastEvent.windows)}
        /\ \A i, j \in 1..Len(lastFired) : i < j =>
            \/ WinPos(lastFired[i].window) < WinPos(lastFired[j].window)
            \/ /\ lastFired[i].window = lastFired[j].window
               /\ lastFired[i].rule < lastFired[j].rule

\* two rules were dispatched for one window snapshot
C9_Witness ==
    /\ IsSnapshot(lastEvent)
    /\ lastOk
    /\ \E i, j \in 1..Len(lastFired) :
        /\ lastFired[i].window = lastFired[j].window
        /\ lastFired[i].rule < lastFired[j].rule

C11_SendAfterHandledAck ==
    \A k \in 1..Len(lastFired) :
        LET sent == lastFired[k].sent
        IN  /\ \A i \in 1..Len(sent) : i < Len(sent) => sent[i].reply = "Handled"
            /\ \A i, j \in 1..Len(sent) : i # j => sent[i].cmd # sent[j].cmd

\* a match whose first command was refused while the rule had more to send
C11_Witness ==
    \E k \in 1..Len(lastFired) :
        /\ Len(lastFired[k].sent) = 1
        /\ lastFired[k].sent[1].reply = "Error"
        /\ Cardinality(Present(windowrules[lastFired[k].rule])) > 1

\* C12: the acknowledgment of every emitted command, the spawn command
\* included, is checked: an error(message) reply to any of them makes the
\* dispatch fail with a reported error.
C12_EveryAckChecked ==
    \A k \in 1..Len(lastFired) :
        \A i \in 1..Len(lastFired[k].sent) :
            lastFired[k].sent[i].reply = "Error" => (~lastFired[k].ok /\ ~lastOk)

StartupOk == <<"Connected", "Connected", "Handled">>

\* C13: the loop is in Streaming, or has read an event, only after both
\* connections were opened and the EventStream subscription was acknowledged
\* as handled; a failed connection or a non-success subscription reply ends
\* the process with an error and no event read.
C13_StreamingAfterStartup ==
    /\ (pc = "Streaming" \/ lastEvent # NoEvent) => startup = StartupOk
    /\ (startup # <<>> /\ startup[Len(startup)] \notin {"Connected", "Handled"}) =>
        /\ pc = "Terminated"
        /\ result = "Err"
        /\ lastEvent = NoEvent
        /\ nEvents = 0

\* the first event has been read
C13_Witness ==
    /\ nEvents = 1
    /\ pc = "Streaming"
    /\ startup = StartupOk

\* C14: in Streaming, a closed transport or a read error ends the loop as a
\* normal shutdown: main returns success.
C14_ReadErrorIsNormalShutdown ==
    lastEvent = ReadError => (pc = "Terminated" /\ result = "Ok")

\* the stream ended after events had been handled
C14_Witness ==
    /\ lastEvent = ReadError
    /\ nEvents > 0
    /\ \E r \in Rules : matched_windows[r] # {}

\* the template with every placeholder occurrence replaced in one pass, left
\* to right, by the window's value; inserted text is not looked at again
RECURSIVE SubstFrom(_, _, _)
SubstFrom(t, w, i) ==
    IF i > Len(t) THEN <<>>
    ELSE IF LitAt(S_id, t, i) THEN to_string(w.id) \o SubstFrom(t, w, i + Len(S_id))
    ELSE IF LitAt(S_title, t, i)
        THEN (IF w.title = None THEN <<>> ELSE w.title[1]) \o SubstFrom(t, w, i + Len(S_title))
    ELSE IF LitAt(S_app_id, t, i)
        THEN (IF w.app_id = None THEN <<>> ELSE w.app_id[1])
                \o SubstFrom(t, w, i + Len(S_app_id))
    ELSE IF LitAt(S_pid, t, i)
        THEN (IF w.pid = None THEN <<>> ELSE to_string(w.pid[1]))
                \o SubstFrom(t, w, i + Len(S_pid))
    ELSE <<t[i]>> \o SubstFrom(t, w, i + 1)

Contains(text, lit) == \E i \in 1..Len(text) : LitAt(lit, text, i)

HoldsPlaceholder(text) ==
    \E ph \in {S_id, S_title, S_app_id, S_pid} : Contains(text, ph)

\* C15: the spawn command equals the rule's template with every occurrence of
\* {id}, {title}, {app_id}, {pid} replaced by the window's id in decimal, its
\* title, its application id and its process id in decimal, an absent title,
\* application id or process id being replaced by the empty string.
C15_TemplateSubstituted ==
    (call.fn = "spawn_command" /\ ret # None) =>
        ret = Some(SubstFrom(call.wr.spawn_sh[1], call.window, 1))

\* C16: an event of another kind leaves the dedup sets unchanged, emits no
\* command and keeps the loop in Streaming.
C16_OtherEventIgnored ==
    lastEvent.kind = "Other" =>
        /\ matched_windows = preMatched
        /\ lastFired = <<>>
        /\ lastOk
        /\ pc = "Streaming"
        /\ result = "running"

\* an event of another kind was read while a rule had fired for some window
C16_Witness ==
    /\ lastEvent.kind = "Other"
    /\ \E r \in Rules : matched_windows[r] # {}

FiredIds(r) == {lastFired[k].window.id : k \in {j \in 1..Len(lastFired) : lastFired[j].rule = r}}

\* C17: dedup state is per rule: handling a snapshot adds to each rule's set
\* exactly the ids that rule was dispatched for, and a rule that applies to a
\* window and has not fired for its id fires, whatever other rules recorded.
C17_DedupIsPerRule ==
    IsSnapshot(lastEvent) =>
        /\ \A r \in Rules : matched_windows[r] = preMatched[r] \cup FiredIds(r)
        /\ lastOk => \A r \in Rules : \A k \in 1..Len(lastEvent.windows) :
            (/\ rule_applies(lastEvent.windows[k], windowrules[r])
             /\ lastEvent.windows[k].id \notin preMatched[r])
                => lastEvent.windows[k].id \in FiredIds(r)

\* a rule fired for the first time for an id another rule had already recorded
C17_Witness ==
    \E k \in 1..Len(lastFired) : \E a \in Rules :
        /\ a # lastFired[k].rule
        /\ lastFired[k].window.id \in preMatched[a]
        /\ lastFired[k].window.id \notin preMatched[lastFired[k].rule]

\* C18: with every acknowledgment handled, a rule match sends as many commands
\* as the rule has action fields present; a rule with no action field sends
\* nothing and is still recorded as fired.
C18_OnlyPresentFieldsSend ==
    \A k \in 1..Len(lastFired) :
        LET e == lastFired[k]
        IN  /\ (\A i \in 1..Len(e.sent) : e.sent[i].reply = "Handled")
                => Len(e.sent) = Cardinality(Present(windowrules[e.rule]))
            /\ Present(windowrules[e.rule]) = {}
                => (e.sent = <<>> /\ e.ok /\ e.window.id \in matched_windows[e.rule])

\* a rule without any action field fired: nothing sent, the id recorded
C18_Witness ==
    \E k \in 1..Len(lastFired) :
        /\ Present(windowrules[lastFired[k].rule]) = {}
        /\ lastFired[k].sent = <<>>
        /\ lastFired[k].window.id \in matched_windows[lastFired[k].rule]

\* C19: a snapshot to which rule r does not apply causes no dispatch of r and
\* does not add the window id to r's set.
C19_NoMatchNoRecord ==
    IsSnapshot(lastEvent) =>
        \A r \in Rules : \A k \in 1..Len(lastEvent.windows) :
            ~rule_applies(lastEvent.windows[k], windowrules[r]) =>
                /\ \A j \in 1..Len(lastFired) :
                    ~(lastFired[j].rule = r /\ lastFired[j].window = lastEvent.windows[k])
                /\ lastEvent.windows[k].id \in matched_windows[r]
                    => lastEvent.windows[k].id \in preMatched[r]

\* a snapshot fired one rule while another rule, which does not apply to it,
\* stayed without its id
C19_Witness ==
    /\ IsSnapshot(lastEvent)
    /\ \E r \in Rules : \E j \in 1..Len(lastFired) :
        /\ lastFired[j].rule # r
        /\ ~rule_applies(lastFired[j].window, windowrules[r])
        /\ lastFired[j].window.id \notin matched_windows[r]

\* C20: inserted text is not scanned for placeholders: also when the window's
\* title or application id holds the text of a placeholder, the spawn command
\* is the single-pass substitution of the template.
C20_InsertedTextVerbatim ==
    (/\ call.fn = "spawn_command"
     /\ ret # None
     /\ \/ HoldsPlaceholder(unwrap_or_default(call.window.title))
        \/ HoldsPlaceholder(unwrap_or_default(call.window.app_id)))
        => ret = Some(SubstFrom(call.wr.spawn_sh[1], call.window, 1))

====
